---- MODULE Spec2Model ----
(***************************************************************************)
(* flux: snapshot lifecycle of a zfs dataset (purge, snapshot, send).      *)
(*                                                                         *)
(* The repository carries two builds of the program.  src/unnamed/part_000 *)
(* resolves a snapshot's time from the backend's "creation" property and   *)
(* has the --dry and --init flags; src/main.go resolves the time from the  *)
(* RFC3339 label of the snapshot and has neither flag.  The variable       *)
(* build selects which of the two is running.                              *)
(*                                                                         *)
(* Times are integers (seconds).  Strings the code parses or splits are    *)
(* sequences of one-character strings, so that parsing, formatting and     *)
(* splitting are computed, not assumed.                                    *)
(***************************************************************************)
EXTENDS Integers, Sequences, FiniteSets, TLC

\* ---------------------------------------------------------------- bounds
MaxChildren == 3      \* children of "tank" the backend starts with
MaxTime == 4          \* latest reading of the clock
MaxAge == 2           \* largest --older-than
MaxNames == 2         \* dataset names on one command line
MaxRace == 2          \* steps another process takes during one command

\* the clock reads StartTime when a command starts and never passes MaxTime
StartTime == MaxTime - 1

Builds == {"part_000", "main.go"}

\* ------------------------------------------------------- program constants
TypeSnapshot == "snapshot"

\* ------------------------------------------------------------ pure helpers
Digits == <<"0", "1", "2", "3", "4", "5", "6", "7", "8", "9">>
IsDigit(c) == \E k \in 1..10 : Digits[k] = c
DigitVal(c) == (CHOOSE k \in 1..10 : Digits[k] = c) - 1

RECURSIVE ParseDigits(_, _)
ParseDigits(s, acc) ==
  IF s = <<>> THEN acc ELSE ParseDigits(Tail(s), acc * 10 + DigitVal(Head(s)))

\* strconv.Atoi: optional sign, then one or more decimal digits
Atoi(p) ==
  LET signed == p # <<>> /\ Head(p) \in {"-", "+"}
      body == IF signed THEN Tail(p) ELSE p
      neg == signed /\ Head(p) = "-"
  IN IF body = <<>> \/ \E k \in 1..Len(body) : ~IsDigit(body[k])
     THEN [err |-> TRUE, v |-> 0]
     ELSE [err |-> FALSE,
           v |-> IF neg THEN 0 - ParseDigits(body, 0) ELSE ParseDigits(body, 0)]

\* strconv.Itoa for the backend's creation stamp (non-negative, one digit
\* per decimal place)
RECURSIVE Itoa(_)
Itoa(v) == IF v < 10 THEN <<Digits[v + 1]>> ELSE Itoa(v \div 10) \o <<Digits[(v % 10) + 1]>>

\* time.Parse(time.RFC3339, label): "T" digits, then zone "Z" or "+" offset;
\* an offset east of UTC moves the instant back.
ParseRFC3339(label) ==
  IF Len(label) = 3 /\ label[1] = "T" /\ IsDigit(label[2]) /\ label[3] = "Z"
  THEN [err |-> FALSE, t |-> DigitVal(label[2])]
  ELSE IF Len(label) = 4 /\ label[1] = "T" /\ IsDigit(label[2])
          /\ label[3] = "+" /\ IsDigit(label[4])
  THEN [err |-> FALSE, t |-> DigitVal(label[2]) - DigitVal(label[4])]
  ELSE [err |-> TRUE, t |-> 0]

\* now.Format(time.RFC3339), clock in UTC
FormatRFC3339(t) == <<"T", Digits[t + 1], "Z">>

\* index of the first "@" of a name, 0 when there is none
AtIndex(name) ==
  IF \E k \in 1..Len(name) : name[k] = "@"
  THEN CHOOSE k \in 1..Len(name) : name[k] = "@" /\ \A m \in 1..(k - 1) : name[m] # "@"
  ELSE 0

\* strings.Split(name, "@")[0]
SplitBase(name) ==
  IF AtIndex(name) = 0 THEN name ELSE SubSeq(name, 1, AtIndex(name) - 1)

\* strings.SplitN(name, "@", 2)[1]
SplitLabel(name) == SubSeq(name, AtIndex(name) + 1, Len(name))

\* time.Time.Before
Before(t, u) == t < u

\* purge's test of an entry against the mark: created.Before(mark)
expiredOrAt(created, m) == created <= m
expired(created, m) == Before(created, m)

\* ---------------------------------------------------------------- backend
\* A child of a dataset as the backend reports it: its qualified name, its
\* kind, and its "creation" property (propErr: GetProperty fails).
Child(name, type, creation, propErr) ==
  [Name |-> name, Type |-> type, creation |-> creation, propErr |-> propErr]

Candidates ==
  { Child(<<"tank", "@", "T", "1", "Z">>, "snapshot", <<"1">>, FALSE),
    Child(<<"tank", "@", "T", "2", "Z">>, "snapshot", <<"2">>, FALSE),
    Child(<<"tank", "@", "T", "3", "+", "1">>, "snapshot", <<"2">>, FALSE),
    Child(<<"tank", "@", "n", "a", "t">>, "snapshot", <<"3">>, FALSE),
    Child(<<"tank", "@", "T", "0", "Z">>, "snapshot", <<"x">>, FALSE),
    Child(<<"tank", "@", "T", "4", "Z">>, "snapshot", <<>>, TRUE),
    Child(<<"tank", "/", "f", "s">>, "filesystem", <<"0">>, FALSE) }

\* "pool" holds one old snapshot throughout
PoolChildren == {Child(<<"pool", "@", "T", "1", "Z">>, "snapshot", <<"1">>, FALSE)}

Datasets == {<<"tank">>, <<"pool">>}
ArgNames == Datasets \cup {<<"gone">>}

\* all enumeration orders of a set of children
RECURSIVE Perms(_)
Perms(S) ==
  IF S = {} THEN {<<>>}
  ELSE UNION { { <<x>> \o rest : rest \in Perms(S \ {x}) } : x \in S }

\* ------------------------------------------------------- timestamp lookup
\* part_000: getCreationTime reads the "creation" property; both errors
\* (GetProperty, Atoi) yield an error, otherwise time.Unix(v, 0).
getCreationTime(d) ==
  IF d.propErr THEN [err |-> TRUE, t |-> 0]
  ELSE IF Atoi(d.creation).err THEN [err |-> TRUE, t |-> 0]
  ELSE [err |-> FALSE, t |-> Atoi(d.creation).v]

\* main.go: getCreatedTime parses the label after "@"; a parse error is
\* replaced by errNoTime.
getCreatedTime(d) ==
  IF ParseRFC3339(SplitLabel(d.Name)).err THEN [err |-> TRUE, t |-> 0]
  ELSE [err |-> FALSE, t |-> ParseRFC3339(SplitLabel(d.Name)).t]

\* the lookup the running build uses
resolveTime(b, d) == IF b = "part_000" THEN getCreationTime(d) ELSE getCreatedTime(d)

\* ------------------------------------------------------------ getSnapshots
ExtDataset(d, base, created) == [Dataset |-> d, BaseName |-> base, Created |-> created]

NilChild == Child(<<>>, "", <<>>, FALSE)
Nil == ExtDataset(NilChild, <<>>, 0)

\* byCreated.Less
byCreatedLessRev(s, i, j) == Before(s[j].Created, s[i].Created)
byCreatedLess(s, i, j) == Before(s[i].Created, s[j].Created)

\* byCreated.Swap
byCreatedSwap(s, i, j) == [s EXCEPT ![i] = s[j], ![j] = s[i]]

\* sort.Sort on a slice shorter than 12: insertion sort driven by Less/Swap
RECURSIVE insertDown(_, _)
insertDown(s, j) ==
  IF j > 1 /\ byCreatedLess(s, j, j - 1)
  THEN insertDown(byCreatedSwap(s, j, j - 1), j - 1)
  ELSE s

RECURSIVE insertionSort(_, _)
insertionSort(s, k) ==
  IF k > Len(s) THEN s ELSE insertionSort(insertDown(s, k), k + 1)

sortSort(s) == insertionSort(s, 2)

\* the kind test of purge and getSnapshots: d.Type == TypeSnapshot
isAnyKind(d) == TRUE
isSnapshot(d) == d.Type = TypeSnapshot

\* the loop of getSnapshots over the enumerated children
keepsUnresolved(b, s) == isSnapshot(s)
keeps(b, s) == isSnapshot(s) /\ ~resolveTime(b, s).err

RECURSIVE collect(_, _, _)
collect(b, sets, out) ==
  IF sets = <<>> THEN out
  ELSE IF keeps(b, Head(sets))
  THEN collect(b, Tail(sets),
               Append(out, ExtDataset(Head(sets), SplitBase(Head(sets).Name),
                                      resolveTime(b, Head(sets)).t)))
  ELSE collect(b, Tail(sets), out)

getSnapshots(b, sets) == sortSort(collect(b, sets, <<>>))

\* ------------------------------------------------------------------ state
VARIABLES
  build,      \* which of the two programs runs
  children,   \* backend: dataset name -> set of its immediate children
  pc,         \* position of the command
  cmd,        \* "", "purge" or "snapshot"
  now,        \* time.Now() at the start of the command
  mark,       \* purge: now - older-than
  dry,        \* purge: --dry
  names,      \* clix.Args()
  target,     \* snapshot: --send
  dest,       \* snapshot: --dest
  initS,      \* snapshot: --init
  sets,       \* purge: the enumerated children
  i,          \* purge: index of the next entry of sets
  n,          \* snapshot: index of the current name
  snapshots,  \* snapshot: result of getSnapshots
  prev,       \* snapshot: predecessor, Nil for none
  snapshot,   \* snapshot: the snapshot just created
  pipe,       \* send: stdin pipe of ssh: "none", "open", "closed"
  proc,       \* send: the ssh subprocess: "none", "running", "exited"
  err,        \* the error the command returned, "" for nil
  events,     \* calls made so far on the backend and the subprocess
  receiver,   \* the remote end: "any" may end at any time, "eof" ends only
              \* once its stdin is closed
  raced       \* what another process did to the backend during the command

vars == <<build, children, pc, cmd, now, mark, dry, names, target, dest, initS,
          sets, i, n, snapshots, prev, snapshot, pipe, proc, err, events,
          receiver, raced>>

Event(op, d, p, ok) == [op |-> op, d |-> d, prev |-> p, ok |-> ok]

\* the state before a command runs, whatever the remote end is
InitProgram ==
  /\ build \in Builds
  /\ \E S \in SUBSET Candidates :
       /\ Cardinality(S) <= MaxChildren
       /\ children = [ds \in Datasets |-> IF ds = <<"tank">> THEN S ELSE PoolChildren]
  /\ pc = "idle"
  /\ cmd = ""
  /\ now = 0
  /\ mark = 0
  /\ dry = FALSE
  /\ names = <<>>
  /\ target = ""
  /\ dest = ""
  /\ initS = FALSE
  /\ sets = <<>>
  /\ i = 1
  /\ n = 1
  /\ snapshots = <<>>
  /\ prev = Nil
  /\ snapshot = NilChild
  /\ pipe = "none"
  /\ proc = "none"
  /\ err = ""
  /\ events = <<>>
  /\ raced = <<>>

Init == InitProgram /\ receiver = "any"

NameSeqs == UNION { [1..k -> ArgNames] : k \in 0..MaxNames }

\* the dataset a purge works on: the literal "tank", whatever clix.Args() is
purgeDataset(args) == <<"tank">>

\* whether the build destroys for real: part_000 tests --dry, main.go has no
\* such flag
destroysAlways(b, dryFlag) == TRUE
destroys(b, dryFlag) == IF b = "part_000" THEN ~dryFlag ELSE TRUE

\* whether a failed Destroy ends the purge: main.go returns the error,
\* part_000 logs it and goes on
destroyErrFatal(b) == b = "main.go"

\* whether the creation time of d can still be read: part_000 asks the backend
\* for the property, which fails once d is gone; main.go parses the name it
\* already holds
present(b, d, held) == b = "part_000" => d \in held

\* ---------------------------------------------------------------- purge
\* purge: flags read, mark := time.Now().Add(-older-than)
PurgeStart ==
  /\ pc = "idle"
  /\ \E t \in {StartTime}, age \in 0..MaxAge, args \in [1..1 -> Datasets],
        flag \in (IF build = "part_000" THEN BOOLEAN ELSE {FALSE}) :
       /\ now' = t
       /\ mark' = t - age
       /\ names' = args
       /\ dry' = flag
  /\ cmd' = "purge"
  /\ pc' = "purge_get"
  /\ UNCHANGED <<build, receiver, raced, children, target, dest, initS, sets, i, n, snapshots,
                 prev, snapshot, pipe, proc, err, events>>

\* zfs.GetDataset("tank"), then data.Children(0); either may fail
PurgeList ==
  /\ pc = "purge_get"
  /\ \/ /\ \E e \in {"lookup", "children"} : err' = e
        /\ pc' = "error"
        /\ UNCHANGED <<sets, i>>
     \/ /\ \E order \in Perms(children[purgeDataset(names)]) : sets' = order
        /\ i' = 1
        /\ pc' = "purge_loop"
        /\ UNCHANGED err
  /\ UNCHANGED <<build, receiver, raced, children, cmd, now, mark, dry, names, target, dest, initS,
                 n, snapshots, prev, snapshot, pipe, proc, events>>

\* one pass of the loop over sets, for an entry that is skipped: not a
\* snapshot, or no creation time
PurgeSkip ==
  /\ pc = "purge_loop"
  /\ i <= Len(sets)
  /\ \/ ~isSnapshot(sets[i])
     \/ resolveTime(build, sets[i]).err
     \/ ~present(build, sets[i], children[purgeDataset(names)])
     \/ ~expired(resolveTime(build, sets[i]).t, mark)
  /\ i' = i + 1
  /\ UNCHANGED <<build, receiver, raced, children, pc, cmd, now, mark, dry, names, target, dest,
                 initS, sets, n, snapshots, prev, snapshot, pipe, proc, err, events>>

\* one pass of the loop for an entry older than mark: logged, and destroyed
\* unless --dry; Destroy may fail
PurgeOld ==
  /\ pc = "purge_loop"
  /\ i <= Len(sets)
  /\ isSnapshot(sets[i])
  /\ ~resolveTime(build, sets[i]).err
  /\ present(build, sets[i], children[purgeDataset(names)])
  /\ expired(resolveTime(build, sets[i]).t, mark)
  /\ LET d == sets[i]
         logged == IF build = "part_000"
                   THEN Append(events, Event("report", d, NilChild, TRUE))
                   ELSE events
     IN IF ~destroys(build, dry)
        THEN /\ events' = logged
             /\ i' = i + 1
             /\ UNCHANGED <<children, pc, err>>
        ELSE \/ /\ d \in children[purgeDataset(names)]
                /\ children' = [children EXCEPT ![purgeDataset(names)] = @ \ {d}]
                /\ events' = Append(logged, Event("destroy", d, NilChild, TRUE))
                /\ i' = i + 1
                /\ UNCHANGED <<pc, err>>
             \/ /\ events' = Append(logged, Event("destroy", d, NilChild, FALSE))
                /\ UNCHANGED children
                /\ IF destroyErrFatal(build)
                   THEN pc' = "error" /\ err' = "destroy" /\ UNCHANGED i
                   ELSE i' = i + 1 /\ UNCHANGED <<pc, err>>
  /\ UNCHANGED <<build, receiver, raced, cmd, now, mark, dry, names, target, dest, initS, sets, n,
                 snapshots, prev, snapshot, pipe, proc>>

\* the loop is over: return nil
PurgeDone ==
  /\ pc = "purge_loop"
  /\ i > Len(sets)
  /\ pc' = "done"
  /\ UNCHANGED <<build, receiver, raced, children, cmd, now, mark, dry, names, target, dest, initS,
                 sets, i, n, snapshots, prev, snapshot, pipe, proc, err, events>>

\* ---------------------------------------------------------------- snapshot
\* --send and --dest as given on the command line
TargetDest == {<<"", "">>, <<"host", "">>, <<"host", "/backup">>}

\* snapshot: flags and arguments read, now := time.Now()
SnapStart ==
  /\ pc = "idle"
  /\ \E args \in NameSeqs, td \in TargetDest,
        flag \in (IF build = "part_000" THEN BOOLEAN ELSE {FALSE}) :
       /\ names' = args
       /\ target' = td[1]
       /\ dest' = td[2]
       /\ initS' = flag
  /\ now' = StartTime
  /\ cmd' = "snapshot"
  /\ n' = 1
  /\ pc' = "snap_get"
  /\ UNCHANGED <<build, receiver, raced, children, mark, dry, sets, i, snapshots, prev, snapshot,
                 pipe, proc, err, events>>

\* prev := snapshots[len(snapshots)-1]
lastOrFirst(s) == s[1]
lastOf(s) == s[Len(s)]

\* if initS { prev = nil }   (part_000 only)
choosePrevIgnoringInit(b, flag, s) == lastOf(s)
choosePrev(b, flag, s) == IF b = "part_000" /\ flag THEN Nil ELSE lastOf(s)

\* where the loop over names goes when GetDataset or getSnapshots fails on
\* the k-th name: return err
listErrorSkipsName(k) == [pc |-> "snap_get", n |-> k + 1]
listErrorReturns(k) == [pc |-> "error", n |-> k]

\* top of the loop over names: zfs.GetDataset(name), getSnapshots(set), then
\* prev := snapshots[len(snapshots)-1], which panics on an empty slice
SnapList ==
  /\ pc = "snap_get"
  /\ n <= Len(names)
  /\ \/ /\ err' = "lookup"
        /\ pc' = listErrorReturns(n).pc
        /\ n' = listErrorReturns(n).n
        /\ UNCHANGED <<snapshots, prev>>
     \/ /\ names[n] \in Datasets
        /\ err' = "children"
        /\ pc' = listErrorReturns(n).pc
        /\ n' = listErrorReturns(n).n
        /\ UNCHANGED <<snapshots, prev>>
     \/ /\ names[n] \in Datasets
        /\ \E out \in { getSnapshots(build, order) : order \in Perms(children[names[n]]) } :
             /\ snapshots' = out
             /\ IF Len(out) = 0
                THEN pc' = "panic" /\ UNCHANGED prev
                ELSE /\ pc' = "snap_create"
                     /\ prev' = choosePrev(build, initS, out)
        /\ UNCHANGED <<err, n>>
  /\ UNCHANGED <<build, receiver, raced, children, cmd, now, mark, dry, names, target, dest, initS,
                 sets, i, snapshot, pipe, proc, events>>

\* after the last name: return nil
SnapDone ==
  /\ pc = "snap_get"
  /\ n > Len(names)
  /\ pc' = "done"
  /\ UNCHANGED <<build, receiver, raced, children, cmd, now, mark, dry, names, target, dest, initS,
                 sets, i, n, snapshots, prev, snapshot, pipe, proc, err, events>>

\* set.Snapshot(now.Format(time.RFC3339), false), then the --send / --dest
\* tests.  The backend refuses a name it already holds and may refuse for
\* reasons of its own; it stamps the new snapshot with its clock.
SnapCreate ==
  /\ pc = "snap_create"
  /\ LET name == names[n] \o <<"@">> \o FormatRFC3339(now)
     IN \/ /\ events' = Append(events, Event("snapshot",
                                  Child(name, TypeSnapshot, <<>>, FALSE), NilChild, FALSE))
           /\ err' = "snapshot"
           /\ pc' = "error"
           /\ UNCHANGED <<children, snapshot, n>>
        \/ /\ \A c \in children[names[n]] : c.Name # name
           /\ \E stamp \in now..MaxTime :
                LET made == Child(name, TypeSnapshot, Itoa(stamp), FALSE)
                IN /\ children' = [children EXCEPT ![names[n]] = @ \cup {made}]
                   /\ snapshot' = made
                   /\ events' = Append(events, Event("snapshot", made, NilChild, TRUE))
           /\ IF target = ""
              THEN n' = n + 1 /\ pc' = "snap_get" /\ UNCHANGED err
              ELSE IF dest = ""
              THEN err' = "no dest specified" /\ pc' = "error" /\ UNCHANGED n
              ELSE pc' = "send_pipe" /\ UNCHANGED <<err, n>>
  /\ UNCHANGED <<build, receiver, raced, cmd, now, mark, dry, names, target, dest, initS, sets, i,
                 snapshots, prev, pipe, proc>>

\* ---------------------------------------------------------------- send
\* which stream send writes: part_000 tests prev == nil, main.go always calls
\* IncrementalSend(prev.Dataset, in)
sendKindAlwaysIncremental(b, p) == "incremental"
sendKind(b, p) ==
  IF b = "part_000" THEN (IF p = Nil THEN "full" ELSE "incremental") ELSE "incremental"

\* sshSend, SysProcAttr, ssh.StdinPipe(); defer in.Close()
SendPipe ==
  /\ pc = "send_pipe"
  /\ \/ /\ pipe' = "open"
        /\ proc' = "none"
        /\ events' = Append(events, Event("pipe", snapshot, NilChild, TRUE))
        /\ pc' = "send_start"
        /\ UNCHANGED err
     \/ /\ events' = Append(events, Event("pipe", snapshot, NilChild, FALSE))
        /\ err' = "pipe"
        /\ pc' = "error"
        /\ UNCHANGED <<pipe, proc>>
  /\ UNCHANGED <<build, receiver, raced, children, cmd, now, mark, dry, names, target, dest, initS,
                 sets, i, n, snapshots, prev, snapshot>>

\* ssh.Start(); on error the deferred Close runs and send returns
SendStart ==
  /\ pc = "send_start"
  /\ \/ /\ proc' = "running"
        /\ events' = Append(events, Event("start", snapshot, NilChild, TRUE))
        /\ pc' = "send_stream"
        /\ UNCHANGED <<pipe, err>>
     \/ /\ events' = events \o <<Event("start", snapshot, NilChild, FALSE),
                                 Event("close", snapshot, NilChild, TRUE)>>
        /\ pipe' = "closed"
        /\ err' = "start"
        /\ pc' = "error"
        /\ UNCHANGED proc
  /\ UNCHANGED <<build, receiver, raced, children, cmd, now, mark, dry, names, target, dest, initS,
                 sets, i, n, snapshots, prev, snapshot>>

\* set.SendSnapshot(in) or set.IncrementalSend(prev.Dataset, in); on success
\* ssh.Wait() is entered, on error the deferred Close runs and send returns
\* without waiting.  In main.go prev.Dataset on a nil prev would panic.
SendStream ==
  /\ pc = "send_stream"
  /\ IF build = "main.go" /\ prev = Nil
     THEN pc' = "panic" /\ UNCHANGED <<pipe, err, events>>
     ELSE \/ /\ snapshot \in children[names[n]]
             /\ prev # Nil => prev.Dataset \in children[names[n]]
             /\ events' = events \o <<Event(sendKind(build, prev), snapshot, prev.Dataset, TRUE),
                                      Event("wait", snapshot, NilChild, TRUE)>>
             /\ pc' = "send_wait"
             /\ UNCHANGED <<pipe, err>>
          \/ /\ events' = events \o <<Event(sendKind(build, prev), snapshot, prev.Dataset, FALSE),
                                      Event("close", snapshot, NilChild, TRUE)>>
             /\ pipe' = "closed"
             /\ err' = "stream"
             /\ pc' = "error"
  /\ UNCHANGED <<build, receiver, raced, children, cmd, now, mark, dry, names, target, dest, initS,
                 sets, i, n, snapshots, prev, snapshot, proc>>

\* the ssh subprocess ends, with or without an error of its own; a remote
\* end of kind "eof" ends, without error, only once its stdin is closed
ChildExit ==
  /\ proc = "running"
  /\ \E status \in {"exited", "failed"} :
       /\ receiver = "eof" => (pipe = "closed" /\ status = "exited")
       /\ proc' = status
  /\ UNCHANGED <<build, receiver, raced, children, pc, cmd, now, mark, dry, names, target, dest,
                 initS, sets, i, n, snapshots, prev, snapshot, pipe, err, events>>

\* ssh.Wait() returns once the subprocess has ended: Wait closes the stdin
\* pipe, the deferred Close runs, and send returns Wait's result
SendWait ==
  /\ pc = "send_wait"
  /\ proc \in {"exited", "failed"}
  /\ pipe' = "closed"
  /\ events' = Append(events, Event("close", snapshot, NilChild, TRUE))
  /\ IF proc = "failed"
     THEN err' = "wait" /\ pc' = "error" /\ UNCHANGED n
     ELSE n' = n + 1 /\ pc' = "snap_get" /\ UNCHANGED err
  /\ UNCHANGED <<build, receiver, raced, children, cmd, now, mark, dry, names, target, dest, initS,
                 sets, i, snapshots, prev, snapshot, proc>>

Next ==
  \/ PurgeStart
  \/ PurgeList
  \/ PurgeSkip
  \/ PurgeOld
  \/ PurgeDone
  \/ SnapStart
  \/ SnapList
  \/ SnapDone
  \/ SnapCreate
  \/ SendPipe
  \/ SendStart
  \/ SendStream
  \/ ChildExit
  \/ SendWait

Spec == Init /\ [][Next]_vars

\* ---------------------------------------------------------------- races
\* the dataset the running command works on, and the steps of the command
\* that come after it has listed that dataset
RaceDataset == IF cmd = "purge" THEN purgeDataset(names) ELSE names[n]

InWindow == pc \in {"purge_loop", "snap_create", "send_pipe", "send_start",
                    "send_stream", "send_wait"}

\* another process destroys a snapshot of that dataset
ExtDestroy ==
  /\ InWindow
  /\ Len(raced) < MaxRace
  /\ \E c \in children[RaceDataset] :
       /\ isSnapshot(c)
       /\ children' = [children EXCEPT ![RaceDataset] = @ \ {c}]
       /\ raced' = Append(raced, [op |-> "destroy", d |-> c])
  /\ UNCHANGED <<build, receiver, pc, cmd, now, mark, dry, names, target, dest,
                 initS, sets, i, n, snapshots, prev, snapshot, pipe, proc,
                 err, events>>

\* another process creates a snapshot of that dataset
ExtCreate ==
  /\ InWindow
  /\ Len(raced) < MaxRace
  /\ \E c \in (IF RaceDataset = <<"tank">> THEN Candidates ELSE PoolChildren)
                \ children[RaceDataset] :
       /\ isSnapshot(c)
       /\ children' = [children EXCEPT ![RaceDataset] = @ \cup {c}]
       /\ raced' = Append(raced, [op |-> "create", d |-> c])
  /\ UNCHANGED <<build, receiver, pc, cmd, now, mark, dry, names, target, dest,
                 initS, sets, i, n, snapshots, prev, snapshot, pipe, proc,
                 err, events>>

NextRace == Next \/ ExtDestroy \/ ExtCreate

\* the backend starts with room for what the other process may create
InitRace ==
  /\ Init
  /\ Cardinality(children[<<"tank">>]) + MaxRace <= MaxChildren

SpecRace == InitRace /\ [][NextRace]_vars

\* the program run against either kind of remote end; every step that can be
\* taken eventually is: the program runs on, and a subprocess that may exit does
InitEOF == InitProgram /\ receiver \in {"any", "eof"}

SpecEOF == InitEOF /\ [][Next]_vars /\ WF_vars(Next)

\* ------------------------------------------------------------ properties
Range(s) == { s[k] : k \in 1..Len(s) }
EventsOf(op) == { k \in 1..Len(events) : events[k].op = op }
Tank == <<"tank">>

\* a child this build catalogues: a snapshot whose time it can resolve
Resolvable(c) == c.Type = "snapshot" /\ ~resolveTime(build, c).err
CreatedAt(c) == resolveTime(build, c).t

\* the dataset a child belongs to: the first component of its name
DatasetOf(c) == <<c.Name[1]>>

\* C1: purge never calls Destroy on an entry whose creation time is at or
\* after the cutoff (mark), whatever the snapshot set, the cutoff and the
\* outcome of the individual Destroy calls.
C1_NeverDestroysYoung ==
  cmd = "purge" =>
    \A k \in EventsOf("destroy") :
      Resolvable(events[k].d) /\ CreatedAt(events[k].d) < mark

\* C1 witness: a purge that destroyed an entry has passed over an entry
\* created exactly at the cutoff and left it on the backend.
C1_Witness ==
  /\ cmd = "purge" /\ pc = "done"
  /\ \E k \in EventsOf("destroy") : events[k].ok
  /\ \E c \in children[Tank] : Resolvable(c) /\ CreatedAt(c) = mark

C3_DestroyFailureNotFatal ==
  (cmd = "purge" /\ \E k \in EventsOf("destroy") : ~events[k].ok) =>
    /\ err # "destroy"
    /\ pc \in {"done", "error"} =>
         \A c \in Range(sets) :
           (Resolvable(c) /\ CreatedAt(c) < mark) =>
             \E k \in EventsOf("destroy") : events[k].d = c

\* C4: on a dataset without resolvable snapshots, snapshot without --init
\* does not crash: it goes on to create the snapshot with no predecessor.
C4_EmptyCatalogCompletes ==
  (cmd = "snapshot" /\ ~initS /\ snapshots = <<>> /\ pc # "snap_get") =>
    /\ pc # "panic"
    /\ prev = Nil

\* C5: with --init the predecessor is none for every state of the catalog,
\* and the workflow reaches the creation of the new snapshot.
C5_InitAlwaysResolvesNone ==
  (cmd = "snapshot" /\ initS) => (pc # "panic" /\ prev = Nil)

\* C6: without --init and with a non-empty catalog, the predecessor is an
\* entry that was on the backend before the new snapshot was created, and no
\* catalogued entry of that dataset is newer than it.
C6_PrevIsGreatest ==
  (cmd = "snapshot" /\ ~initS /\ pc = "snap_create") =>
    /\ prev # Nil
    /\ prev.Dataset \in children[names[n]]
    /\ prev.Created = CreatedAt(prev.Dataset)
    /\ \A c \in children[names[n]] : Resolvable(c) => CreatedAt(c) <= prev.Created

\* C6 witness: the predecessor was chosen among several catalogued entries
\* with different creation times.
C6_Witness ==
  /\ cmd = "snapshot" /\ ~initS /\ pc = "snap_create"
  /\ \E c \in children[names[n]] : Resolvable(c) /\ CreatedAt(c) < prev.Created

\* C7: a transfer without predecessor writes a full stream and never an
\* incremental one; a transfer with a predecessor writes an incremental
\* stream from that predecessor and never a full one.
C7_SendKindFollowsPrev ==
  /\ \A k \in EventsOf("full") : events[k].prev = NilChild
  /\ \A k \in EventsOf("incremental") :
       events[k].prev # NilChild /\ events[k].prev # events[k].d
  /\ pc = "send_wait" =>
       /\ events[Len(events) - 1].op = (IF prev = Nil THEN "full" ELSE "incremental")
       /\ events[Len(events) - 1].prev = prev.Dataset
       /\ events[Len(events) - 1].d = snapshot

\* C7 witness: a full stream was written for a transfer without predecessor.
C7_Witness ==
  pc = "send_wait" /\ prev = Nil /\ EventsOf("full") # {}

\* C8: the sequence getSnapshots returns is in non-decreasing order of
\* creation time, for every snapshot set and enumeration order.
C8_SortedByCreated ==
  \A k \in 1..(Len(snapshots) - 1) : snapshots[k].Created <= snapshots[k + 1].Created

\* C8 witness: a listing of three entries that spans different times.
C8_Witness ==
  Len(snapshots) >= 3 /\ snapshots[1].Created < snapshots[Len(snapshots)].Created

\* C9: for one snapshot set the listing is the same whatever order the
\* backend enumerates the children in (ties are broken by name), and so is
\* the predecessor.
C9_ListingIndependentOfOrder ==
  pc = "snap_create" =>
    \A order \in Perms(children[names[n]]) :
      /\ getSnapshots(build, order) = snapshots
      /\ choosePrev(build, initS, getSnapshots(build, order)) = prev

\* C10: the listing holds exactly the snapshots whose creation time can be
\* resolved, each with that time, and an unresolvable snapshot does not make
\* the listing fail.
C10_UnresolvableSkipped ==
  pc \in {"snap_create", "panic"} =>
    /\ err = ""
    /\ { e.Dataset : e \in Range(snapshots) }
         = { c \in children[names[n]] : Resolvable(c) }
    /\ Len(snapshots) = Cardinality({ c \in children[names[n]] : Resolvable(c) })
    /\ \A e \in Range(snapshots) :
         /\ e.Dataset.Type = "snapshot"
         /\ e.Created = CreatedAt(e.Dataset)

\* C10 witness: a listing that succeeded with one entry while the dataset
\* also holds a snapshot whose time cannot be resolved.
C10_Witness ==
  /\ pc = "snap_create"
  /\ Len(snapshots) = 1
  /\ \E c \in children[names[n]] : c.Type = "snapshot" /\ ~Resolvable(c)

\* C11: when --send is given without --dest, the error is returned with no
\* side effect attempted: no snapshot was created for that dataset and no
\* subprocess was prepared or started.
C11_NoDestNoSideEffects ==
  (cmd = "snapshot" /\ err = "no dest specified") =>
    /\ \A k \in EventsOf("snapshot") : DatasetOf(events[k].d) # names[n]
    /\ \A c \in children[names[n]] : c.Name # names[n] \o <<"@">> \o FormatRFC3339(now)
    /\ EventsOf("pipe") = {} /\ EventsOf("start") = {}

\* C12: in every transfer the stdin pipe is closed before ssh.Wait() is
\* entered, and it is closed on every path on which send returns after the
\* pipe was acquired.
C12_PipeClosedBeforeWait ==
  /\ \A k \in EventsOf("wait") :
       \E j \in EventsOf("close") : j < k /\ events[j].d = events[k].d
  /\ pc = "send_wait" => pipe = "closed"
  /\ (pc \in {"done", "error", "snap_get"} /\ pipe # "none") => pipe = "closed"

\* C13: a failure of set.Snapshot on one dataset ends only that dataset's
\* workflow: the command does not return while names after it are left
\* unprocessed.
C13_CreateFailureOnlyEndsOneDataset ==
  (cmd = "snapshot" /\ err = "snapshot") => (pc = "error" => n = Len(names))

\* C14: with a remote end that exits only once its stdin is closed, and a
\* stream that was written without error, a send that started the subprocess
\* is never stuck: while it waits for the subprocess, the subprocess or the
\* program can take a step
C14_TransferReturns ==
  (receiver = "eof" /\ pc = "send_wait" /\ EventsOf("start") # {}) =>
    ENABLED Next

\* C15: once the subprocess has been started, send waits for it before it
\* returns, also when the stream write fails; a failed stream write is the
\* error send returns.
C15_AlwaysWaitsAfterStart ==
  /\ \A k \in EventsOf("start") :
       (events[k].ok /\ ~(pc = "send_stream" /\ events[k].d = snapshot)) =>
         \E j \in EventsOf("wait") : j > k /\ events[j].d = events[k].d
  /\ \A k \in EventsOf("full") \cup EventsOf("incremental") :
       ~events[k].ok => (pc = "error" /\ err = "stream")

\* C16: without --dry, once the children were enumerated, the entries purge
\* calls Destroy on are exactly the snapshots whose creation time is strictly
\* before the cutoff, each at most once.
C16_DestroysExactlyTheOld ==
  (cmd = "purge" /\ ~dry /\ pc \in {"done", "error"} /\ err \notin {"lookup", "children"}) =>
    /\ { events[k].d : k \in EventsOf("destroy") }
         = { c \in Range(sets) : Resolvable(c) /\ CreatedAt(c) < mark }
    /\ \A j, k \in EventsOf("destroy") : events[j].d = events[k].d => j = k

\* C17: purge works on the datasets the caller names: every entry it
\* enumerates and every entry it destroys is a child of a named dataset.
C17_PurgeActsOnNamedDatasets ==
  cmd = "purge" =>
    /\ \A c \in Range(sets) : DatasetOf(c) \in Range(names)
    /\ \A k \in EventsOf("destroy") : DatasetOf(events[k].d) \in Range(names)

\* C18: when GetDataset or the enumeration of children fails on one name, the
\* command returns that error and processes no later name: the snapshots
\* created and the transfers started are those of the names before it.
C18_ListErrorAbortsBatch ==
  (cmd = "snapshot" /\ err \in {"lookup", "children"}) =>
    /\ pc = "error"
    /\ n <= Len(names)
    /\ Cardinality(EventsOf("snapshot")) = n - 1
    /\ \A k \in EventsOf("snapshot") :
         events[k].ok /\ \E m \in 1..(n - 1) : DatasetOf(events[k].d) = names[m]
    /\ Cardinality(EventsOf("pipe")) <= n - 1
    /\ Cardinality(EventsOf("start")) <= n - 1

\* C18 witness: the command has returned a lookup or enumeration error while
\* a later name of the batch, an existing dataset, is left unprocessed.
C18_Witness ==
  /\ cmd = "snapshot" /\ pc = "error" /\ err \in {"lookup", "children"}
  /\ n < Len(names)
  /\ names[n + 1] \in Datasets

\* C19: when another process has created or destroyed snapshots of the dataset
\* after the command listed it, the command does not crash, and purge has
\* destroyed no entry created at or after the cutoff
C19_RaceTolerated ==
  /\ (cmd = "snapshot" /\ n <= Len(names)
        /\ \E k \in 1..Len(raced) : DatasetOf(raced[k].d) = names[n]) =>
       pc # "panic"
  /\ (cmd = "purge" /\ raced # <<>>) =>
       /\ pc # "panic"
       /\ \A k \in EventsOf("destroy") :
            (events[k].ok /\ Resolvable(events[k].d)) =>
              CreatedAt(events[k].d) < mark

\* C20: only children of kind snapshot are destroyed or catalogued, so the
\* predecessor of a transfer is a snapshot.
C20_OnlySnapshotsTouched ==
  /\ \A k \in EventsOf("destroy") : events[k].d.Type = "snapshot"
  /\ \A e \in Range(snapshots) : e.Dataset.Type = "snapshot"
  /\ prev # Nil => prev.Dataset.Type = "snapshot"
  /\ \A k \in EventsOf("incremental") : events[k].prev.Type = "snapshot"

\* C20 witness: a finished purge destroyed a snapshot and passed over a
\* filesystem child older than the cutoff, which is still on the backend.
C20_Witness ==
  /\ cmd = "purge" /\ pc = "done"
  /\ \E k \in EventsOf("destroy") : events[k].ok
  /\ \E c \in Range(sets) :
       /\ c.Type = "filesystem"
       /\ ~getCreationTime(c).err /\ getCreationTime(c).t < mark
       /\ c \in children[Tank]

====
